---- MODULE Spec2Model ----
(***************************************************************************)
(* Model of promptflow's SDK flow entities (_sdk/entities/_flow.py) and of *)
(* the executor interface declared in _sdk/_submitter/                     *)
(* _flow_executor_csharp.py.                                               *)
(*                                                                         *)
(* Python values are tagged records: a str is [type |-> "str", val |-> a   *)
(* sequence of text chunks], a dict is [type |-> "dict", items |-> a       *)
(* function from keys to values], a _Connection object is                  *)
(* [type |-> "_Connection", id |-> its identity].                          *)
(***************************************************************************)
EXTENDS Integers, Sequences, FiniteSets, TLC

VARIABLES
    heap,                 \* the objects of the program, by reference
    context,              \* Flow._context: a reference into heap
    initial_connections,  \* per FlowContext, the connections mapping as passed at construction
    exc,                  \* exception raised by the last context assignment ("none" if it returned)
    last_hash             \* result of the last hash(flow.context) since the context was set

ctxVars == <<heap, context, initial_connections, exc, last_hash>>

VARIABLES
    dirs,                 \* the directories that exist on disk
    additional_includes,  \* whether the flow's DAG needs supporting files copied beside it
    pc,                   \* where the running _init_executable call is ("idle" when none runs)
    caller,               \* who called _init_executable: the inputs or outputs property, or a direct call
    scope,                \* the flow variant_overwrite_context yielded, with the temporary copy it holds
    pending,              \* what the with-body produced: a value to return or an exception to raise
    executable,           \* ProtectedFlow._executable
    returned,             \* what the last finished _init_executable call returned or raised
    calls                 \* number of _init_executable calls started

exeVars == <<dirs, additional_includes, pc, caller, scope, pending, executable, returned, calls>>

VARIABLES
    deps,                 \* the flow graph: for each node, the nodes its inputs come from
    tolerant,             \* the nodes flagged error-tolerant
    aggregation,          \* the nodes flagged as aggregation nodes
    raise_ex,             \* the executor's raise_ex (FlowExecutorCSharp.create)
    call,                 \* per call (a row's exec_line, or exec_aggregation): its progress and result
    status,               \* per call and node: pending, running, success, error, skipped, cancelled
    batch,                \* aggregation_inputs: the row outputs in the order the caller supplied them
    consumed              \* per aggregation node, the entries handed to its body

schVars == <<deps, tolerant, aggregation, raise_ex, call, status, batch, consumed>>

vars == <<ctxVars, exeVars, schVars>>

----------------------------------------------------------------------------
(* Bounds *)

\* number of distinct live _Connection objects
NumConnObjs == 2
\* width of the modelled hash values, in bits
HashBits == 6
\* number of _init_executable calls in one behaviour
MaxCalls == 3
\* number of nodes of the flow graph
NumNodes == 3
\* largest node_concurrency a caller passes
MaxConcurrency == 2
\* largest number of row outputs handed to exec_aggregation
MaxBatch == 2

----------------------------------------------------------------------------
(* Python values *)

Str(chunks) == [type |-> "str", val |-> chunks]

ConnObj(i) == [type |-> "_Connection", id |-> i]

Dict(f) == [type |-> "dict", items |-> f]

None == [type |-> "NoneType"]

EmptyMap == [k \in {} |-> None]

ConnObjs == {ConnObj(i) : i \in 1..NumConnObjs}

\* isinstance(v, dict)
IsDict(v) == v.type = "dict"

\* isinstance(conn, _Connection)
IsConnection(v) == v.type = "_Connection"

\* id(obj): the identity of a live object
Id(obj) == obj.id

----------------------------------------------------------------------------
(* json.dumps(obj, sort_keys=True) and hash(), as __hash__ uses them *)

\* the text chunks a key or a value of the model can be made of
NodeNames == {"n1", "n2"}

ParamNames == {"p", "q"}

\* dict keys in the order sort_keys=True emits them (string order)
KeyOrder == <<"E", "n1", "n2", "o", "p", "q">>

SortedKeys(f) == SelectSeq(KeyOrder, LAMBDA k : k \in DOMAIN f)

Digits == [i \in 1..NumConnObjs |-> ToString(i)]

Alphabet == <<"{", "}", ": ", ", ", "\"", "null", "true", "connection_", "lit", "v1", "x">>
            \o KeyOrder \o Digits

Code(tok) == CHOOSE i \in 1..Len(Alphabet) : Alphabet[i] = tok

Modulus == 2 ^ HashBits

RECURSIVE Concat(_)
\* the concatenation of a sequence of chunk sequences
Concat(ss) == IF ss = <<>> THEN <<>> ELSE Head(ss) \o Concat(Tail(ss))

RECURSIVE JsonText(_)
\* the text json.dumps(v, sort_keys=True) builds; an object json cannot serialize leaves
\* the chunk "<TypeError>" where the encoder raises
JsonText(v) ==
    CASE v.type = "str" -> <<"\"">> \o v.val \o <<"\"">>
      [] v.type = "NoneType" -> <<"null">>
      [] v.type = "bool" -> <<"true">>
      [] v.type = "dict" ->
            LET keys == SortedKeys(v.items)
            IN  <<"{">>
                \o Concat([i \in 1..Len(keys) |->
                            (IF i > 1 THEN <<", ">> ELSE <<>>)
                            \o <<"\"", keys[i], "\"", ": ">> \o JsonText(v.items[keys[i]])])
                \o <<"}">>
      [] OTHER -> <<"<TypeError>">>

\* whether json.dumps raised while building the text t
Raised(t) == \E i \in 1..Len(t) : t[i] = "<TypeError>"

RECURSIVE HashPrefix(_, _)
\* the hash of the first n chunks of the text t
HashPrefix(t, n) ==
    IF n = 0 THEN 0
    ELSE (HashPrefix(t, n - 1) * 31 + Code(t[n])) % Modulus

\* hash() of a text, chunk by chunk
HashText(t) == HashPrefix(t, Len(t))

\* hash(v) for the values __hash__ hashes directly: None, a str, an int
HashValue(v) ==
    CASE v.type = "NoneType" -> Modulus - 1
      [] v.type = "str" -> HashText(v.val)
      [] v.type = "int" -> v.val % Modulus

RECURSIVE BitXor(_, _)
\* a ^ b on non-negative integers
BitXor(a, b) ==
    IF a = 0 THEN b
    ELSE IF b = 0 THEN a
    ELSE 2 * BitXor(a \div 2, b \div 2) + ((a + b) % 2)

RECURSIVE XorIds(_, _)
\* for obj in connection_objs.values(): result ^= hash(id(obj))
XorIds(result, connection_objs) ==
    IF DOMAIN connection_objs = {} THEN result
    ELSE LET name == CHOOSE n \in DOMAIN connection_objs : TRUE
             rest == [n \in DOMAIN connection_objs \ {name} |-> connection_objs[n]]
         IN  XorIds(BitXor(result, HashValue([type |-> "int", val |-> Id(connection_objs[name])])),
                    rest)

----------------------------------------------------------------------------
(* FlowContext *)

\* FlowContext.__init__
FlowContext(connections, variant, environment_variables, overrides, streaming) ==
    [type |-> "FlowContext",
     connections |-> connections,
     connection_objs |-> EmptyMap,
     variant |-> variant,
     environment_variables |-> environment_variables,
     overrides |-> overrides,
     streaming |-> streaming]

\* _get_connection_obj_name without the object's id in the name
GetConnectionObjNameNoId(connection) == Str(<<"connection_">>)

\* FlowContext._get_connection_obj_name: f"connection_{id(connection)}"
GetConnectionObjName(connection) == Str(<<"connection_", ToString(Id(connection))>>)

\* the (v, k) slots of connections that _resolve_connections rewrites
ConnectionSlots(connections) ==
    {<<n, k>> \in NodeNames \X ParamNames :
        /\ n \in DOMAIN connections.items
        /\ IsDict(connections.items[n])
        /\ k \in DOMAIN connections.items[n].items
        /\ IsConnection(connections.items[n].items[k])}

\* the inner loop of _resolve_connections overwriting every slot of v, not only connection objects
ResolveDictAllSlots(v) ==
    Dict([k \in DOMAIN v.items |->
            IF IsConnection(v.items[k]) THEN GetConnectionObjName(v.items[k])
            ELSE Str(<<"connection_">>)])

\* the inner loop of _resolve_connections on one dict v: v[k] = name
ResolveDict(v) ==
    Dict([k \in DOMAIN v.items |->
            IF IsConnection(v.items[k]) THEN GetConnectionObjName(v.items[k]) ELSE v.items[k]])

\* FlowContext._resolve_connections
ResolveConnections(self) ==
    LET slots == ConnectionSlots(self.connections)
        found == {self.connections.items[s[1]].items[s[2]] : s \in slots}
        names == DOMAIN self.connection_objs \cup {GetConnectionObjName(c) : c \in found}
    IN  [self EXCEPT
            !.connections =
                Dict([n \in DOMAIN self.connections.items |->
                        IF IsDict(self.connections.items[n])
                        THEN ResolveDict(self.connections.items[n])
                        ELSE self.connections.items[n]]),
            !.connection_objs =
                [name \in names |->
                    IF \E c \in found : GetConnectionObjName(c) = name
                    THEN CHOOSE c \in found : GetConnectionObjName(c) = name
                    ELSE self.connection_objs[name]]]

\* __hash__ that also hashes environment_variables
HashWithEnv(self) ==
    LET conns == JsonText(self.connections)
        overs == JsonText(self.overrides)
        envs == JsonText(self.environment_variables)
    IN  IF Raised(conns) \/ Raised(overs) \/ Raised(envs)
        THEN [exc |-> "TypeError", value |-> 0]
        ELSE [exc |-> "none",
              value |-> BitXor(BitXor(XorIds(BitXor(HashValue(self.variant), HashText(conns)),
                                             self.connection_objs),
                                      HashText(overs)),
                               HashText(envs))]

\* FlowContext.__hash__
Hash(self) ==
    LET conns == JsonText(self.connections)
        overs == JsonText(self.overrides)
    IN  IF Raised(conns) \/ Raised(overs)
        THEN [exc |-> "TypeError", value |-> 0]
        ELSE [exc |-> "none",
              value |-> BitXor(XorIds(BitXor(HashValue(self.variant), HashText(conns)),
                                      self.connection_objs),
                               HashText(overs))]

----------------------------------------------------------------------------
(* The executor behind FlowExecutorCSharp: the flow graph and the calls on it *)

NodeIds == 1..NumNodes

\* the rows executed (exec_line) and the aggregation over them (exec_aggregation)
Lines == {"r1", "r2"}

Calls == Lines \cup {"agg"}

\* acyclic graphs: a node's inputs come from nodes declared before it
Graphs == {g \in [NodeIds -> SUBSET NodeIds] : \A n \in NodeIds : g[n] \subseteq 1..(n - 1)}

RECURSIVE Ancestors(_, _)
\* the nodes n depends on, directly or transitively
Ancestors(g, n) == UNION {{d} \cup Ancestors(g, d) : d \in g[n]}

\* the nodes that depend on m, directly or transitively
Descendants(g, m) == {n \in NodeIds : m \in Ancestors(g, n)}

\* the nodes a call runs: exec_aggregation the aggregation nodes, exec_line the others
RunNodes(c) == IF c = "agg" THEN aggregation ELSE NodeIds \ aggregation

IdleCall == [state |-> "idle", node_concurrency |-> 0, timed_out |-> FALSE, aborted |-> FALSE,
             result |-> [status |-> "none", outputs |-> {}]]

\* an executor with a graph that no call has run on yet
ExecutorCreated(g, tol, agg, rex) ==
    /\ deps = g
    /\ tolerant = tol
    /\ aggregation = agg
    /\ raise_ex = rex
    /\ call = [c \in Calls |-> IdleCall]
    /\ status = [c \in Calls |-> [n \in NodeIds |-> "pending"]]
    /\ batch = <<>>
    /\ consumed = [n \in NodeIds |-> <<>>]

\* no executor in use
ExecutorIdle == ExecutorCreated([n \in NodeIds |-> {}], {}, {}, FALSE)

InFlight(c) == {n \in RunNodes(c) : status[c][n] = "running"}

\* the dependency d of n has completed: successfully, or with an error n tolerates (d
\* failed, or was skipped because of a failure upstream, and n is error-tolerant)
Completed(c, d, n) ==
    \/ status[c][d] = "success"
    \/ status[c][d] \in {"error", "skipped"} /\ n \in tolerant

\* a scheduler that takes a node as ready once any one of its dependencies has completed
ReadyAfterAny(c, n) ==
    /\ n \in RunNodes(c)
    /\ status[c][n] = "pending"
    /\ deps[n] \cap RunNodes(c) # {} => \E d \in deps[n] \cap RunNodes(c) : Completed(c, d, n)

\* n is ready: its upstream dependencies have all completed
Ready(c, n) ==
    /\ n \in RunNodes(c)
    /\ status[c][n] = "pending"
    /\ \A d \in deps[n] \cap RunNodes(c) : Completed(c, d, n)

ReadySet(c) == {n \in NodeIds : Ready(c, n)}

\* a failure of m is tolerated when nodes depend on it and all of them are error-tolerant
Tolerated(c, m) ==
    /\ Descendants(deps, m) \cap RunNodes(c) # {}
    /\ Descendants(deps, m) \cap RunNodes(c) \subseteq tolerant

NonToleratedFailure(c, st) == \E m \in RunNodes(c) : st[m] = "error" /\ ~Tolerated(c, m)

\* exec_line(inputs, index, run_id, ..., node_concurrency): a row starts executing
ExecLine(r, node_concurrency) ==
    /\ call[r].state = "idle"
    /\ call["agg"].state = "idle"
    /\ RunNodes(r) # {}
    /\ call' = [call EXCEPT ![r].state = "running", ![r].node_concurrency = node_concurrency]
    /\ UNCHANGED <<deps, tolerant, aggregation, raise_ex, status, batch, consumed>>
    /\ UNCHANGED <<ctxVars, exeVars>>

\* exec_aggregation(inputs, aggregation_inputs, run_id, node_concurrency), after the rows
ExecAggregation(aggregation_inputs, node_concurrency) ==
    /\ call["agg"].state = "idle"
    /\ \A r \in Lines : call[r].state # "running"
    /\ RunNodes("agg") # {}
    /\ call' = [call EXCEPT !["agg"].state = "running",
                            !["agg"].node_concurrency = node_concurrency]
    /\ batch' = aggregation_inputs
    /\ UNCHANGED <<deps, tolerant, aggregation, raise_ex, status, consumed>>
    /\ UNCHANGED <<ctxVars, exeVars>>

\* a pool that starts one task per ready node
WorkerAlwaysFree(c) == TRUE

\* the worker pool has a free worker for call c
WorkerFree(c) == Cardinality(InFlight(c)) < call[c].node_concurrency

\* the batch handed over newest row first
EntriesReversed(n) == [i \in 1..Len(batch) |-> batch[Len(batch) + 1 - i]]

\* the entries handed to an aggregation node: the whole batch, in the order supplied
EntriesFor(n) == batch

\* the scheduler hands the first ready node, in declaration order, to a free worker
Dispatch(c, n) ==
    /\ call[c].state = "running"
    /\ ~call[c].timed_out
    /\ ~call[c].aborted
    /\ Ready(c, n)
    /\ \A m \in ReadySet(c) : n <= m
    /\ WorkerFree(c)
    /\ status' = [status EXCEPT ![c][n] = "running"]
    /\ consumed' = IF c = "agg" THEN [consumed EXCEPT ![n] = EntriesFor(n)] ELSE consumed
    /\ UNCHANGED <<deps, tolerant, aggregation, raise_ex, call, batch>>
    /\ UNCHANGED <<ctxVars, exeVars>>

\* a node body returns its output
NodeSucceeds(c, n) ==
    /\ call[c].state = "running"
    /\ status[c][n] = "running"
    /\ status' = [status EXCEPT ![c][n] = "success"]
    /\ UNCHANGED <<deps, tolerant, aggregation, raise_ex, call, batch, consumed>>
    /\ UNCHANGED <<ctxVars, exeVars>>

\* skipping only the nodes that take an input from m directly
SkippedByDirect(c, m) == {n \in RunNodes(c) : m \in deps[n] /\ n \notin tolerant}

\* the nodes marked Skipped when m fails: those depending on m that are not error-tolerant
SkippedBy(c, m) == {n \in Descendants(deps, m) \cap RunNodes(c) : n \notin tolerant}

\* a node body fails: the error is recorded, the nodes depending on it are skipped; in
\* strict mode a failure that is not tolerated aborts the call and cancels what is in flight
NodeFails(c, m) ==
    /\ call[c].state = "running"
    /\ status[c][m] = "running"
    /\ LET abort == raise_ex /\ ~Tolerated(c, m)
       IN  /\ status' = [status EXCEPT ![c] =
                [n \in NodeIds |->
                    IF n = m THEN "error"
                    ELSE IF n \in SkippedBy(c, m) /\ status[c][n] = "pending" THEN "skipped"
                    ELSE IF abort /\ status[c][n] = "running" THEN "cancelled"
                    ELSE status[c][n]]]
           /\ call' = [call EXCEPT ![c].aborted = abort]
    /\ UNCHANGED <<deps, tolerant, aggregation, raise_ex, batch, consumed>>
    /\ UNCHANGED <<ctxVars, exeVars>>

\* a line timeout that cancels every in-flight node task of the executor
LineTimeoutCancelsAll(r) ==
    /\ call[r].state = "running"
    /\ ~call[r].timed_out
    /\ ~call[r].aborted
    /\ call' = [call EXCEPT ![r].timed_out = TRUE]
    /\ status' = [c \in Calls |->
            [n \in NodeIds |-> IF status[c][n] = "running" THEN "cancelled" ELSE status[c][n]]]
    /\ UNCHANGED <<deps, tolerant, aggregation, raise_ex, batch, consumed>>
    /\ UNCHANGED <<ctxVars, exeVars>>

\* the row's line timeout expires: this row's in-flight node tasks are cancelled
LineTimeout(r) ==
    /\ call[r].state = "running"
    /\ ~call[r].timed_out
    /\ ~call[r].aborted
    /\ call' = [call EXCEPT ![r].timed_out = TRUE]
    /\ status' = [status EXCEPT ![r] =
            [n \in NodeIds |-> IF status[r][n] = "running" THEN "cancelled" ELSE status[r][n]]]
    /\ UNCHANGED <<deps, tolerant, aggregation, raise_ex, batch, consumed>>
    /\ UNCHANGED <<ctxVars, exeVars>>

\* the overall status of a call whose nodes ended as st
OverallStatus(c, st) ==
    IF call[c].timed_out THEN "Timeout"
    ELSE IF NonToleratedFailure(c, st) THEN "Failed"
    ELSE "Completed"

\* nothing is left to run: the call returns its result, or raises in strict mode
Return(c) ==
    /\ call[c].state = "running"
    /\ \/ call[c].timed_out
       \/ call[c].aborted
       \/ InFlight(c) = {} /\ ReadySet(c) = {}
    /\ call' = [call EXCEPT
            ![c].state = IF call[c].aborted THEN "raised" ELSE "returned",
            ![c].result = IF call[c].aborted THEN call[c].result
                          ELSE [status |-> OverallStatus(c, status[c]),
                                outputs |-> {n \in RunNodes(c) : status[c][n] = "success"}]]
    /\ UNCHANGED <<deps, tolerant, aggregation, raise_ex, status, batch, consumed>>
    /\ UNCHANGED <<ctxVars, exeVars>>

\* the batches a caller can supply: the outputs of rows 1..k, ascending or descending
Batches == UNION {{[i \in 1..k |-> i], [i \in 1..k |-> k + 1 - i]} : k \in 0..MaxBatch}

\* the sets of error-tolerant nodes: none, or one node
TolerantSets == {{}} \cup {{n} : n \in NodeIds}

Concurrencies == 1..MaxConcurrency


----------------------------------------------------------------------------
(* The values a caller builds contexts from *)

Literal == Str(<<"lit">>)

\* a value of one (node, parameter) slot: a literal or a connection object
SlotValues == {Literal} \cup ConnObjs

\* the dicts over the keys in keys with values in values, as Python dicts
DictsOver(keys, values) ==
    UNION {{Dict(f) : f \in [ks -> values]} : ks \in SUBSET keys}

\* the parameters of each node that take a connection or a literal
ParamsOf(n) == IF n = "n1" THEN ParamNames ELSE {"p"}

\* connections: Dict[str, Dict] by its docstring; a non-dict entry is skipped by the code
ConnectionsInputs ==
    UNION {{Dict(f) : f \in {g \in [ns -> DictsOver(ParamNames, SlotValues) \cup {Literal}] :
                                \A n \in ns : IsDict(g[n]) => DOMAIN g[n].items \subseteq ParamsOf(n)}} :
           ns \in SUBSET NodeNames}

VariantInputs == {None, Str(<<"v1">>)}

EnvironmentInputs == DictsOver({"E"}, {Str(<<"x">>)})

OverridesInputs == DictsOver({"o"}, {Str(<<"x">>)})

StreamingInputs == {None, [type |-> "bool"]}

\* every FlowContext(...) a caller can construct
FlowContextInputs ==
    {FlowContext(c, v, e, o, s) :
        c \in ConnectionsInputs, v \in VariantInputs, e \in EnvironmentInputs,
        o \in OverridesInputs, s \in StreamingInputs}

\* values that are not FlowContext objects
OtherValues == {None, Literal, Dict(EmptyMap)}

\* isinstance(val, FlowContext)
IsFlowContext(val) == val.type = "FlowContext"

NoHash == [exc |-> "unset", value |-> 0]

----------------------------------------------------------------------------
(* Flow *)

\* Flow.code: the flow's directory
CodeDir == <<"code", 0>>

\* the n-th temporary directory created
TempDir(n) == <<"tmp", n>>

NoDir == <<"none", 0>>

NoScope == [temp |-> NoDir, code |-> NoDir, path |-> NoDir]

NoOutcome == [kind |-> "none"]

\* the FlowContext object Flow.__init__ creates
DefaultRef == 1

\* the FlowContext object the caller constructs
CallerRef == 2

\* FlowContext(): every argument defaulted
DefaultContext == FlowContext(Dict(EmptyMap), None, Dict(EmptyMap), Dict(EmptyMap), None)

\* the objects a caller can hand to the context setter
Objects(callerContext) ==
    <<DefaultContext, callerContext>> \o <<None, Literal, Dict(EmptyMap)>>

\* Flow.__init__: self._context = FlowContext(); the caller holds a FlowContext of its own
FlowInit(callerContexts) ==
    /\ \E c \in callerContexts : heap = Objects(c)
    /\ context = DefaultRef
    /\ initial_connections = [r \in {DefaultRef, CallerRef} |-> heap[r].connections]
    /\ exc = "none"
    /\ last_hash = NoHash

\* a context setter that assigns without the isinstance check
ContextSetterUnchecked(val) ==
    /\ context' = val
    /\ exc' = "none"
    /\ last_hash' = NoHash
    /\ UNCHANGED <<heap, initial_connections>>
    /\ UNCHANGED <<exeVars, schVars>>

\* Flow.context setter
ContextSetter(val) ==
    /\ IF ~IsFlowContext(heap[val])
       THEN /\ exc' = "UserErrorException"
            /\ UNCHANGED <<heap, context, initial_connections, last_hash>>
       ELSE /\ context' = val
            /\ exc' = "none"
            /\ last_hash' = NoHash
            /\ UNCHANGED <<heap, initial_connections>>
    /\ UNCHANGED <<exeVars, schVars>>

\* flow.context._resolve_connections()
ResolveConnectionsCall ==
    /\ heap' = [heap EXCEPT ![context] = ResolveConnections(heap[context])]
    /\ UNCHANGED <<context, initial_connections, exc, last_hash>>
    /\ UNCHANGED <<exeVars, schVars>>

\* hash(flow.context)
HashCall ==
    /\ last_hash' = Hash(heap[context])
    /\ UNCHANGED <<heap, context, initial_connections, exc>>
    /\ UNCHANGED <<exeVars, schVars>>

\* flow.context.environment_variables = env (a plain attribute)
SetEnvironmentVariables(env) ==
    /\ heap' = [heap EXCEPT ![context].environment_variables = env]
    /\ UNCHANGED <<context, initial_connections, exc, last_hash>>
    /\ UNCHANGED <<exeVars, schVars>>

\* ProtectedFlow.__init__: self._executable = None; nothing runs yet
ExecutableInit ==
    /\ dirs = {CodeDir}
    /\ pc = "idle"
    /\ caller = "none"
    /\ scope = NoScope
    /\ pending = NoOutcome
    /\ executable = None
    /\ returned = NoOutcome
    /\ calls = 0

Init ==
    /\ FlowInit(FlowContextInputs)
    /\ ExecutableInit
    /\ additional_includes = FALSE
    /\ ExecutorIdle

Next ==
    \/ \E val \in DOMAIN heap : ContextSetter(val)
    \/ ResolveConnectionsCall
    \/ HashCall
    \/ \E env \in EnvironmentInputs : SetEnvironmentVariables(env)

Spec == Init /\ [][Next]_vars

----------------------------------------------------------------------------
(* Properties of FlowContext and Flow *)

ContextRefs == {DefaultRef, CallerRef}

\* the fields __hash__ is documented to depend on, and the registered objects
SameKeyFields(a, b) ==
    /\ a.variant = b.variant
    /\ a.connections = b.connections
    /\ a.overrides = b.overrides
    /\ a.connection_objs = b.connection_objs

\* C7: the identity key (__hash__) of a FlowContext depends only on variant, connections,
\* overrides and the registered connection objects: two contexts agreeing on these have
\* equal keys whatever their environment_variables are, and replacing only the
\* environment_variables (or streaming) of a context leaves its key as it was.
C7_KeyExcludesEnvironment ==
    /\ SameKeyFields(heap[DefaultRef], heap[CallerRef]) =>
            Hash(heap[DefaultRef]) = Hash(heap[CallerRef])
    /\ \A e \in EnvironmentInputs, st \in StreamingInputs :
            Hash([heap[context] EXCEPT !.environment_variables = e, !.streaming = st])
                = Hash(heap[context])

\* two contexts with the same key fields and different environment variables, with a key computed
C7_Witness ==
    /\ SameKeyFields(heap[DefaultRef], heap[CallerRef])
    /\ heap[DefaultRef].environment_variables # heap[CallerRef].environment_variables
    /\ last_hash.exc = "none"
    /\ last_hash = Hash(heap[context])

\* C8 as stated: no operation changes a FlowContext's fields, the connections mapping stays
\* as passed at construction, and the identity key is the same before and after
\* _resolve_connections.
C8_ReadOnlyAfterConstruction ==
    /\ [][\A r \in ContextRefs : heap'[r].connections = initial_connections'[r]]_vars
    /\ [][ResolveConnectionsCall =>
            /\ heap'[context] = heap[context]
            /\ Hash(heap'[context]) = Hash(heap[context])]_vars

\* connections after resolution against connections before: same keys, same non-dict
\* entries, same literal slots, each connection-object slot replaced by the object's name
OnlyObjectSlotsRenamed(before, after) ==
    /\ DOMAIN after.items = DOMAIN before.items
    /\ \A n \in DOMAIN before.items :
        LET b == before.items[n]
            a == after.items[n]
        IN  IF ~IsDict(b) THEN a = b
            ELSE /\ IsDict(a)
                 /\ DOMAIN a.items = DOMAIN b.items
                 /\ \A k \in DOMAIN b.items :
                        a.items[k] = IF IsConnection(b.items[k])
                                     THEN GetConnectionObjName(b.items[k])
                                     ELSE b.items[k]

\* C8 amended: _resolve_connections never changes variant, environment_variables, overrides
\* or streaming; in connections it changes only the slots that held connection objects,
\* replacing each by the generated name, so the mapping differs from the one passed at
\* construction in exactly those slots; when no slot holds a connection object the
\* context and its identity key are the same before and after resolution.
C8_ResolveChangesOnlyObjectSlots ==
    /\ [][\A r \in ContextRefs :
            \/ heap'[r].connections = initial_connections'[r]
            \/ OnlyObjectSlotsRenamed(initial_connections'[r], heap'[r].connections)]_vars
    /\ [][ResolveConnectionsCall =>
            LET old == heap[context]
                new == heap'[context]
            IN  /\ new.variant = old.variant
                /\ new.environment_variables = old.environment_variables
                /\ new.overrides = old.overrides
                /\ new.streaming = old.streaming
                /\ OnlyObjectSlotsRenamed(old.connections, new.connections)
                /\ ConnectionSlots(old.connections) = {} =>
                        /\ new = old
                        /\ Hash(new) = Hash(old)]_vars

\* a resolved context whose connections differ from the mapping passed in, beside a kept literal
C8_Witness ==
    /\ context = CallerRef
    /\ heap[CallerRef].connections # initial_connections[CallerRef]
    /\ heap[CallerRef].connection_objs # EmptyMap
    /\ \E n \in DOMAIN heap[CallerRef].connections.items :
        /\ IsDict(heap[CallerRef].connections.items[n])
        /\ \E k \in DOMAIN heap[CallerRef].connections.items[n].items :
                heap[CallerRef].connections.items[n].items[k] = Literal

\* C9: after _resolve_connections every connection object that was in a slot of connections
\* is registered in _connection_objs under exactly one name, its slot holds that name, no
\* slot holds an object any more, and resolving again changes neither connections nor
\* _connection_objs; one object bound at several parameters has a single entry.
C9_ResolveOnceIdempotent ==
    [][ResolveConnectionsCall =>
        LET old == heap[context]
            new == heap'[context]
        IN  /\ ConnectionSlots(new.connections) = {}
            /\ \A s \in ConnectionSlots(old.connections) :
                LET c == old.connections.items[s[1]].items[s[2]]
                    name == new.connections.items[s[1]].items[s[2]]
                IN  /\ name.type = "str"
                    /\ name \in DOMAIN new.connection_objs
                    /\ new.connection_objs[name] = c
                    /\ Cardinality({m \in DOMAIN new.connection_objs :
                                        new.connection_objs[m] = c}) = 1
            /\ ResolveConnections(new) = new
            /\ (ConnectionSlots(old.connections) = {} => heap' = heap)]_vars

\* resolved: one object bound at two parameters has one entry, beside a second object
C9_Witness ==
    /\ context = CallerRef
    /\ Cardinality(DOMAIN heap[CallerRef].connection_objs) = 2
    /\ \E n \in DOMAIN initial_connections[CallerRef].items :
        /\ IsDict(initial_connections[CallerRef].items[n])
        /\ DOMAIN initial_connections[CallerRef].items[n].items = ParamNames
        /\ \E c \in ConnObjs : \A k \in ParamNames :
            /\ initial_connections[CallerRef].items[n].items[k] = c
            /\ heap[CallerRef].connections.items[n].items[k] = GetConnectionObjName(c)

\* C10: Flow._context always refers to a FlowContext object; assigning a FlowContext
\* replaces it, assigning anything else raises UserErrorException and leaves it unchanged.
C10_ContextIsFlowContext ==
    /\ IsFlowContext(heap[context])
    /\ [][IsFlowContext(heap'[context'])]_vars
    /\ [][\A val \in DOMAIN heap :
            ContextSetter(val) =>
                IF IsFlowContext(heap[val])
                THEN context' = val /\ exc' = "none"
                ELSE context' = context /\ heap' = heap /\ exc' = "UserErrorException"]_vars

\* a rejected assignment after the caller's context replaced the constructed one
C10_Witness ==
    /\ context = CallerRef
    /\ exc = "UserErrorException"

----------------------------------------------------------------------------
(* Flow._init_executable and the ProtectedFlow properties that call it *)

TuningNodeInputs == {"none", "n1"}

VariantIdInputs == {"none", "v1", "unknown"}

\* the variant identifier does not exist for the target node
UnknownVariant(tuning_node, variant) == tuning_node # "none" /\ variant = "unknown"

\* variant_overwrite_context(self.code, tuning_node, variant).__enter__: the flow it yields.
\* With additional includes the flow is a temporary copy of the code directory.
EnterVariantOverwriteContext(n) ==
    IF additional_includes
    THEN [temp |-> TempDir(n), code |-> TempDir(n), path |-> TempDir(n)]
    ELSE [temp |-> NoDir, code |-> CodeDir, path |-> CodeDir]

\* ExecutableFlow.from_yaml(flow_file=flow.path, working_dir=flow.code)
FromYaml(flow_file, working_dir, tuning_node, variant) ==
    [type |-> "ExecutableFlow", flow_file |-> flow_file, working_dir |-> working_dir,
     tuning_node |-> tuning_node, variant |-> variant]

\* _init_executable is entered: from ProtectedFlow.inputs / outputs when no executable is
\* cached, or directly; the with statement acquires the scope
InitExecutableCall(who, tuning_node, variant) ==
    /\ pc = "idle"
    /\ calls < MaxCalls
    /\ who \in {"inputs", "outputs"} => executable = None /\ tuning_node = "none" /\ variant = "none"
    /\ calls' = calls + 1
    /\ caller' = who
    /\ scope' = EnterVariantOverwriteContext(calls + 1)
    /\ dirs' = IF additional_includes THEN dirs \cup {TempDir(calls + 1)} ELSE dirs
    /\ IF UnknownVariant(tuning_node, variant)
       THEN /\ pending' = [kind |-> "raise", exc |-> "ConfigurationError"]
            /\ pc' = "exit"
       ELSE /\ pending' = [kind |-> "args", tuning_node |-> tuning_node, variant |-> variant]
            /\ pc' = "body"
    /\ UNCHANGED <<additional_includes, executable, returned>>
    /\ UNCHANGED <<ctxVars, schVars>>

\* the with body: return ExecutableFlow.from_yaml(flow_file=flow.path, working_dir=flow.code)
FromYamlReturns ==
    /\ pc = "body"
    /\ pending' = [kind |-> "return",
                   value |-> FromYaml(scope.path, scope.code, pending.tuning_node, pending.variant)]
    /\ pc' = "exit"
    /\ UNCHANGED <<dirs, additional_includes, caller, scope, executable, returned, calls>>
    /\ UNCHANGED <<ctxVars, schVars>>

\* the with body is left by an exception: the load fails, or the call is cancelled
FromYamlRaises(e) ==
    /\ pc = "body"
    /\ pending' = [kind |-> "raise", exc |-> e]
    /\ pc' = "exit"
    /\ UNCHANGED <<dirs, additional_includes, caller, scope, executable, returned, calls>>
    /\ UNCHANGED <<ctxVars, schVars>>

\* the with statement is left: the temporary copy is released, then the call returns or raises
ExitVariantOverwriteContext ==
    /\ pc = "exit"
    /\ dirs' = dirs \ {scope.temp}
    /\ scope' = NoScope
    /\ returned' = pending
    /\ pending' = NoOutcome
    /\ executable' = IF pending.kind = "return" /\ caller \in {"inputs", "outputs"}
                     THEN pending.value ELSE executable
    /\ caller' = "none"
    /\ pc' = "idle"
    /\ UNCHANGED <<additional_includes, calls>>
    /\ UNCHANGED <<ctxVars, schVars>>

ExecutableSpecInit ==
    /\ FlowInit({DefaultContext})
    /\ ExecutableInit
    /\ additional_includes \in BOOLEAN
    /\ ExecutorIdle

ExecutableNext ==
    \/ \E who \in {"inputs", "outputs", "direct"}, t \in TuningNodeInputs, v \in VariantIdInputs :
            InitExecutableCall(who, t, v)
    \/ FromYamlReturns
    \/ \E e \in {"LoadError", "Cancelled"} : FromYamlRaises(e)
    \/ ExitVariantOverwriteContext

SpecExecutable == ExecutableSpecInit /\ [][ExecutableNext]_vars

\* C6 as stated: from_yaml runs inside the scope; when no call is running every temporary
\* copy is released, whatever way the call ended; and an executable that was returned
\* (or cached in _executable) never has a working directory that no longer exists.
C6_NoReferenceToReleasedCopy ==
    /\ pc = "body" => (additional_includes => scope.temp \in dirs)
    /\ pc = "idle" => dirs = {CodeDir}
    /\ (pc = "idle" /\ returned.kind = "return") => returned.value.working_dir \in dirs
    /\ executable # None => executable.working_dir \in dirs

----------------------------------------------------------------------------
(* Specifications of the executor *)

\* FlowExecutorCSharp.create on any graph, of row nodes or of aggregation nodes
ExecutorSpecInit ==
    /\ FlowInit({DefaultContext})
    /\ ExecutableInit
    /\ additional_includes = FALSE
    /\ \E g \in Graphs, tol \in TolerantSets, agg \in {{}, NodeIds}, rex \in BOOLEAN :
            ExecutorCreated(g, tol, agg, rex)

\* one row, then the aggregation
ExecutorNext ==
    \/ \E k \in Concurrencies : ExecLine("r1", k)
    \/ \E b \in Batches, k \in Concurrencies : ExecAggregation(b, k)
    \/ \E c \in {"r1", "agg"}, n \in NodeIds : Dispatch(c, n)
    \/ \E c \in {"r1", "agg"}, n \in NodeIds : NodeSucceeds(c, n)
    \/ \E c \in {"r1", "agg"}, n \in NodeIds : NodeFails(c, n)
    \/ LineTimeout("r1")
    \/ \E c \in {"r1", "agg"} : Return(c)

SpecExecutor == ExecutorSpecInit /\ [][ExecutorNext]_vars

\* the graphs of the rows run side by side: a chain, or every node fed by the first
LineGraphs ==
    {g \in Graphs : \/ \A n \in NodeIds \ {1} : g[n] = {n - 1}
                    \/ \A n \in NodeIds \ {1} : g[n] = {1}}

LinesSpecInit ==
    /\ FlowInit({DefaultContext})
    /\ ExecutableInit
    /\ additional_includes = FALSE
    /\ \E g \in LineGraphs, rex \in BOOLEAN : ExecutorCreated(g, {}, {}, rex)

\* two rows executing concurrently
LinesNext ==
    \/ \E r \in Lines, k \in Concurrencies : ExecLine(r, k)
    \/ \E r \in Lines, n \in NodeIds : Dispatch(r, n)
    \/ \E r \in Lines, n \in NodeIds : NodeSucceeds(r, n)
    \/ \E r \in Lines, n \in NodeIds : NodeFails(r, n)
    \/ \E r \in Lines : LineTimeout(r)
    \/ \E r \in Lines : Return(r)

\* a call that has nothing left to wait for does return; node bodies need never finish
FairSpecLines ==
    /\ LinesSpecInit
    /\ [][LinesNext]_vars
    /\ WF_vars(Return("r1"))
    /\ WF_vars(Return("r2"))

----------------------------------------------------------------------------
(* Properties of the executor *)

\* the chain A -> B -> C over the first three nodes, the other nodes independent
ChainABC == [n \in NodeIds |-> IF n \in {2, 3} THEN {n - 1} ELSE {}]

Ran(c, n) == status[c][n] \in {"success", "error"}

TimedOut(r) == call[r].timed_out

ReturnedTimeout(r) == call[r].state = "returned" /\ call[r].result.status = "Timeout"

====
